---- MODULE Spec2Model ----
(***************************************************************************)
(* A model of src/view.rs of things-to-check: the list of suggestions      *)
(* loaded once from the embedded YAML asset, the two request handlers      *)
(* (index, slack_troubleshoot), the URL helpers behind the "share this     *)
(* one" link, and make_service, which mounts the handlers on an app.       *)
(***************************************************************************)
EXTENDS Integers, Sequences, FiniteSets, TLC

(* ------------------------------ bounds -------------------------------- *)

\* the longest list of suggestions the embedded asset holds
MaxThings == 2

\* the number of App instances the app factory configures (one per worker)
MaxApps == 2

\* the width of usize in the model (64 in the build): item values up to
\* 2^UsizeBits - 1 fit, larger ones do not parse
UsizeBits == 4

\* the suggestion texts an asset is built from: the empty text, a plain
\* letter, a character HTML rendering must escape, and the two together
Markdowns == {<<>>, <<"a">>, <<"<">>, <<"a", "<">>}

SeqsUpTo(S, n) == UNION {[1..k -> S] : k \in 0..n}

UsizeMax == 2^UsizeBits - 1

(* --------------------- Option<T> and Result<T, E> --------------------- *)

\* Option<T> is a sequence of length at most one: <<>> is None, <<x>> is Some(x)
None == <<>>
Some(x) == <<x>>

(* ------------------------- numbers and text --------------------------- *)

\* usize's Display: the decimal digits of n, most significant first
RECURSIVE usize_to_string(_)
usize_to_string(n) ==
    IF n < 10 THEN <<n>> ELSE usize_to_string(n \div 10) \o <<n % 10>>

\* usize's FromStr: accumulate the digits with checked arithmetic; None when
\* the text is empty or the value does not fit usize
RECURSIVE from_str_radix(_, _)
from_str_radix(digits, acc) ==
    IF digits = <<>> THEN Some(acc)
    ELSE IF acc * 10 + Head(digits) > UsizeMax THEN None
    ELSE from_str_radix(Tail(digits), acc * 10 + Head(digits))

usize_from_str(digits) ==
    IF digits = <<>> THEN None ELSE from_str_radix(digits, 0)

\* pulldown_cmark's HTML escaping of one character of body text
escape_html(c) ==
    CASE c = "<" -> "&lt;"
      [] c = ">" -> "&gt;"
      [] c = "&" -> "&amp;"
      [] OTHER   -> c

\* html::push_html over Parser::new_ext(markdown, Options::empty()), for one
\* line of text with no markup: nothing for empty input, otherwise a paragraph
\* of the escaped text
push_html(markdown) ==
    IF markdown = <<>> THEN <<>>
    ELSE <<"<p>">> \o [i \in 1..Len(markdown) |-> escape_html(markdown[i])]
                   \o <<"</p>", "\n">>

(* --------------------------- Thing, Things ---------------------------- *)

\* impl From<String> for Thing
Thing_from(markdown) == [markdown |-> markdown, html |-> push_html(markdown)]

\* enumerate as it would be counting from 1
enumerate_from_one(s) == [i \in 1..Len(s) |-> <<i, s[i]>>]

\* Iterator::enumerate: each element paired with its position, from 0
enumerate(s) == [i \in 1..Len(s) |-> <<i - 1, s[i]>>]

\* serde_yaml::from_str::<Vec<String>>: the strings of a well-formed asset,
\* an error for a malformed one
from_str(src) ==
    IF src.wellformed THEN [ok |-> TRUE, val |-> src.strings]
    ELSE [ok |-> FALSE, val |-> <<>>]

\* load_things as it would be if empty strings were dropped
load_things_skip_empty(src) ==
    LET raw_things == from_str(src) IN
    IF ~raw_things.ok THEN [ok |-> FALSE, val |-> <<>>]
    ELSE [ok |-> TRUE,
          val |-> enumerate(SelectSeq([i \in 1..Len(raw_things.val) |->
                                          Thing_from(raw_things.val[i])],
                                      LAMBDA t : t.markdown # <<>>))]

load_things(src) ==
    LET raw_things == from_str(src) IN
    IF ~raw_things.ok THEN [ok |-> FALSE, val |-> <<>>]
    ELSE [ok |-> TRUE,
          val |-> enumerate([i \in 1..Len(raw_things.val) |->
                                Thing_from(raw_things.val[i])])]

\* #[derive(Clone)] on Things
clone(things) == things

\* get as it would be with 1-based indexing
get_one_based(v, i) == IF 0 < i /\ i <= Len(v) THEN Some(v[i]) ELSE None

\* get as it would be with the index wrapped around the length
get_wrapping(v, i) == IF Len(v) = 0 THEN None ELSE Some(v[(i % Len(v)) + 1])

\* <[T]>::get with a 0-based index
get(v, i) == IF i < Len(v) THEN Some(v[i + 1]) ELSE None

\* gen_index as it would be if the draw never gave the last position
gen_index_short(len) == 0..(len - 2)

\* rand's gen_index(rng, len): the positions a uniform draw can give
gen_index(len) == 0..(len - 1)

\* SliceRandom::choose: None on an empty slice, else the element at a drawn
\* position; the set of the outcomes the draw allows
choose(v) ==
    IF Len(v) = 0 THEN {None} ELSE {Some(v[i + 1]) : i \in gen_index(Len(v))}

(* ----------------------- ItemQuery and the URLs ------------------------ *)

\* resource as it would be with the chat handler mounted at /troubleshoot
resource_troubleshoot(name) ==
    CASE name = "index" -> [method |-> "GET", path |-> "/"]
      [] name = "slack_troubleshoot" ->
             [method |-> "POST", path |-> "/troubleshoot"]

\* the #[get(...)] and #[post(...)] attributes: each handler's method and path
resource(name) ==
    CASE name = "index" -> [method |-> "GET", path |-> "/"]
      [] name = "slack_troubleshoot" ->
             [method |-> "POST", path |-> "/slack/troubleshoot"]

\* #[derive(Default)] for ItemQuery, and impl From<usize> for ItemQuery
ItemQuery_default == [item |-> None]
ItemQuery_from(idx) == [item |-> Some(idx)]

\* serde_urlencoded::to_string of an ItemQuery: the key-value pairs of the
\* query string; a None field is left out
to_string(query) ==
    IF query.item = None THEN <<>>
    ELSE << <<"item", usize_to_string(query.item[1])>> >>

\* the web::Query<ItemQuery> extractor: the query string deserialized into an
\* ItemQuery, or an error when the item does not parse as usize
Query_from_query(qs) ==
    IF qs = <<>> THEN [ok |-> TRUE, val |-> ItemQuery_default]
    ELSE LET parsed == usize_from_str(qs[1][2]) IN
         IF parsed = None THEN [ok |-> FALSE, val |-> ItemQuery_default]
         ELSE [ok |-> TRUE, val |-> ItemQuery_from(parsed[1])]

\* HttpRequest::url_for(name, no elements): the URL of the resource registered
\* under that name in the app serving the request, None when there is none
url_for(app, name) ==
    IF name \in app.services
    THEN Some([path |-> resource(name).path, query |-> <<>>])
    ELSE None

\* impl Urls for HttpRequest: index, and the trait's two provided methods
Urls_index(app, query) ==
    LET url == url_for(app, "index") IN
    IF url = None THEN None
    ELSE Some([url[1] EXCEPT !.query = to_string(query)])

\* suggestion as it would be if the link counted items from 1
Urls_suggestion_next(app, idx) == Urls_index(app, ItemQuery_from(idx + 1))

Urls_suggestion(app, idx) == Urls_index(app, ItemQuery_from(idx))

Urls_new_suggestion(app) == Urls_index(app, ItemQuery_default)

(* ----------------------------- responses ------------------------------ *)

Response(status, service, headers, page, json) ==
    [status |-> status, service |-> service, headers |-> headers,
     page |-> page, json |-> json]

\* error::ErrorNotFound("Not found") returned from a handler
ErrorNotFound(service) == Response(404, service, {}, None, None)

\* the extractor's QueryPayloadError: 400 Bad Request, the handler not run
ErrorBadRequest(service) == Response(400, service, {}, None, None)

\* the app's default service, for a request no registered resource matches
DefaultNotFound == Response(404, "default", {}, None, None)

\* struct Suggestion: the template's context
Suggestion(thing, app, index) == [thing |-> thing, index |-> index, req |-> app]

\* templates/index.html rendered through askama's Responder: the page with
\* the suggestion, its "share this one" link (item = the suggestion's index)
\* and its "suggest another" link (no item); 500 when a link cannot be built
respond_to(s) ==
    LET share   == Urls_suggestion(s.req, s.index)
        another == Urls_new_suggestion(s.req)
    IN IF share = None \/ another = None
       THEN Response(500, "index", {}, None, None)
       ELSE Response(200, "index", {<<"Content-Type", "text/html">>},
                     Some([thing |-> s.thing, index |-> s.index,
                           share |-> share[1], another |-> another[1]]),
                     None)

\* the response as it would be with the header left out
customize_nothing(response) == response

\* .customize().insert_header(("Cache-Control", "no-store"))
customize_insert_header(response) ==
    [response EXCEPT !.headers =
        {h \in @ : h[1] # "Cache-Control"} \cup {<<"Cache-Control", "no-store">>}]

\* the handler index: the responses it can give (one per outcome of the draw)
index(app, query) ==
    LET things == IF query.item # None
                  THEN {get(app.data, query.item[1])}
                  ELSE choose(app.data)
    IN {IF thing = None THEN ErrorNotFound("index")
        ELSE customize_insert_header(
                 respond_to(Suggestion(thing[1][2], app, thing[1][1])))
        : thing \in things}

\* struct SlackMessage
SlackMessage(t) == [response_type |-> "in_channel", text |-> t]

\* slack_troubleshoot as it would be if it sent the rendered HTML
slack_troubleshoot_html(app) ==
    {IF thing = None THEN ErrorNotFound("slack_troubleshoot")
     ELSE Response(200, "slack_troubleshoot",
                   {<<"Content-Type", "application/json">>},
                   None, Some(SlackMessage(thing[1][2].html)))
     : thing \in choose(app.data)}

\* the handler slack_troubleshoot
slack_troubleshoot(app) ==
    {IF thing = None THEN ErrorNotFound("slack_troubleshoot")
     ELSE Response(200, "slack_troubleshoot",
                   {<<"Content-Type", "application/json">>},
                   None, Some(SlackMessage(thing[1][2].markdown)))
     : thing \in choose(app.data)}

\* the app's router: the registered resource whose method and path match the
\* request runs its extractors and its handler; no match, the default service
dispatch(app, request) ==
    LET matching == {n \in app.services :
                        /\ resource(n).method = request.method
                        /\ resource(n).path = request.path}
    IN IF "index" \in matching
       THEN LET query == Query_from_query(request.query) IN
            IF ~query.ok THEN {ErrorBadRequest("index")}
            ELSE index(app, query.val)
       ELSE IF "slack_troubleshoot" \in matching
       THEN slack_troubleshoot(app)
       ELSE {DefaultNotFound}

\* make_service as it would be if a load error gave an empty list
make_service_or_empty(src) == [ok |-> TRUE, val |-> load_things(src).val]

\* make_service: the Things the returned closure captures, or the load error
make_service(src) == load_things(src)

\* the closure make_service returns, applied to a fresh ServiceConfig
configure(things) ==
    [services |-> {"index", "slack_troubleshoot"}, data |-> clone(things)]

(* --------------------------- the state machine ------------------------ *)

VARIABLES
    THINGS,   \* the embedded asset things-to-check.yml, fixed at build time
    pc,       \* main: "start", "serving" (make_service returned Ok), "failed"
    loads,    \* how many times load_things has run
    service,  \* the Things captured by the closure make_service returned
    apps,     \* the App instances configured so far, one per worker
    req,      \* the request handled last (None before the first)
    resp,     \* the response to it
    origin,   \* history: the page whose "share this one" link req followed
    shown     \* history: what each GET /?item=<item> that succeeded returned

vars == <<THINGS, pc, loads, service, apps, req, resp, origin, shown>>

\* the assets a build can embed: malformed YAML, or a sequence of strings
Assets ==
    {[wellformed |-> FALSE, strings |-> <<>>]} \cup
    {[wellformed |-> TRUE, strings |-> s] : s \in SeqsUpTo(Markdowns, MaxThings)}

\* the requests clients send: a GET or a POST of one of three paths; a GET
\* carries no item parameter, or a decimal number: every position of the
\* longest list, the first one past it, the largest usize and the number
\* after that
Paths == {"/", "/troubleshoot", "/slack/troubleshoot"}
Items == 0..MaxThings \cup {UsizeMax, UsizeMax + 1}
Queries == {<<>>} \cup {<< <<"item", usize_to_string(n)>> >> : n \in Items}
Requests ==
    {[method |-> "GET", path |-> p, query |-> q] : p \in Paths, q \in Queries}
    \cup {[method |-> "POST", path |-> p, query |-> <<>>] : p \in Paths}

Init ==
    /\ THINGS \in Assets
    /\ pc = "start"
    /\ loads = 0
    /\ service = None
    /\ apps = <<>>
    /\ req = None
    /\ resp = None
    /\ origin = None
    /\ shown = {}

\* main: let service = view::make_service()?;
main_make_service ==
    /\ pc = "start"
    /\ LET made == make_service(THINGS) IN
       /\ pc' = IF made.ok THEN "serving" ELSE "failed"
       /\ service' = IF made.ok THEN Some(made.val) ELSE None
    /\ loads' = loads + 1
    /\ UNCHANGED <<THINGS, apps, req, resp, origin, shown>>

\* a worker of HttpServer::new(app_factory) builds its App:
\* App::new().configure(|cfg| service(cfg))
app_factory ==
    /\ pc = "serving"
    /\ service # None
    /\ Len(apps) < MaxApps
    /\ apps' = Append(apps, configure(service[1]))
    /\ UNCHANGED <<THINGS, pc, loads, service, req, resp, origin, shown>>

\* the history of the explicit-item requests that returned a page
Shown(request, response) ==
    IF /\ response.service = "index"
       /\ response.page # None
       /\ request.query # <<>>
    THEN shown \cup {[query |-> request.query,
                      thing |-> response.page[1].thing,
                      index |-> response.page[1].index]}
    ELSE shown

\* app a serves one request
Serve(a, request, from) ==
    /\ a \in 1..Len(apps)
    /\ \E response \in dispatch(apps[a], request) :
          /\ req' = Some(request)
          /\ resp' = Some(response)
          /\ origin' = from
          /\ shown' = Shown(request, response)
    /\ UNCHANGED <<THINGS, pc, loads, service, apps>>

\* a client sends any request
handle(a, r) ==
    Serve(a, [method |-> r.method, path |-> r.path, query |-> r.query,
              app |-> a, via |-> "direct"], None)

\* a client follows the "share this one" link of the page it was just served
follow_share(a) ==
    /\ resp # None
    /\ resp[1].page # None
    /\ LET link == resp[1].page[1].share IN
       Serve(a, [method |-> "GET", path |-> link.path, query |-> link.query,
                 app |-> a, via |-> "share"], resp[1].page)

Next ==
    \/ main_make_service
    \/ app_factory
    \/ \E a \in 1..MaxApps, r \in Requests : handle(a, r)
    \/ \E a \in 1..MaxApps : follow_share(a)

Spec == Init /\ [][Next]_vars

\* a client asks app a for a random suggestion
random_get(a) == handle(a, [method |-> "GET", path |-> "/", query |-> <<>>])

\* a request for a random suggestion that is answered with the one at index i
index_random(i) ==
    /\ \E a \in 1..MaxApps : random_get(a)
    /\ resp'[1].page # None
    /\ resp'[1].page[1].index = i

\* the service under an endless sequence of requests for a random suggestion
RandomNext ==
    \/ main_make_service
    \/ app_factory
    \/ \E a \in 1..MaxApps : random_get(a)

\* main and the workers run, requests keep coming, and the uniform draw of
\* thread_rng() does not avoid any position forever
FairSpec ==
    /\ Init /\ [][RandomNext]_vars
    /\ WF_vars(main_make_service)
    /\ WF_vars(app_factory)
    /\ \A i \in 0..(MaxThings - 1) : WF_vars(index_random(i))

(* ------------------------------ the claims ---------------------------- *)

\* the sequence of strings the asset holds, and the last exchange
List == THINGS.strings
Answered == resp # None
Request == req[1]
Reply == resp[1]
Page == resp[1].page[1]
NoStore == <<"Cache-Control", "no-store">>

\* the number a string of decimal digits writes, with no limit on its size
RECURSIVE Value(_)
Value(digits) ==
    IF digits = <<>> THEN 0
    ELSE Value(SubSeq(digits, 1, Len(digits) - 1)) * 10 + digits[Len(digits)]

GetIndex == Answered /\ Request.method = "GET" /\ Request.path = "/"
\* a list of two suggestions whose rendering differs from their text
TwoThings == << <<"a">>, <<"a", "<">> >>

GetItem == GetIndex /\ Request.query # <<>>
GetRandom == GetIndex /\ Request.query = <<>>
Item == Value(Request.query[1][2])

\* C1: GET /?item=<item> with 0 <= item < len(list) succeeds and returns the
\* suggestion stored at exactly position item (index = item, text =
\* list[item]), and any two such requests with the same item, anywhere in a
\* sequence of requests, returned the same suggestion.
C1_ItemReturnsThatPosition ==
    /\ (GetItem /\ Item < Len(List)) =>
          /\ Reply.status = 200
          /\ Reply.page # None
          /\ Page.index = Item
          /\ Page.thing.markdown = List[Item + 1]
          /\ Page.thing.html = push_html(List[Item + 1])
    /\ \A s, t \in shown : s.query = t.query => s = t

C1_Witness ==
    /\ List = TwoThings /\ Answered /\ Request.app = 1
    /\ GetItem /\ Item = 1 /\ Reply.page # None
    /\ Cardinality(shown) = 2

\* C2 as stated: GET /?item=<item> with any non-negative item >= len(list)
\* returns the not-found error (404) and never a suggestion.
C2_OutOfRangeIsNotFound ==
    (GetItem /\ Item >= Len(List)) =>
        /\ Reply.status = 404
        /\ Reply.page = None

\* C2 as amended: GET /?item=<item> with item >= len(list) never returns a
\* suggestion; it returns 404 when item fits usize and 400 (bad request, the
\* handler is not run) when it does not.
C2_OutOfRangeIsAnError ==
    (GetItem /\ Item >= Len(List)) =>
        /\ Reply.page = None
        /\ Reply.json = None
        /\ Item <= UsizeMax => Reply.status = 404
        /\ Item > UsizeMax => Reply.status = 400

C2_Witness ==
    /\ List = TwoThings /\ Answered /\ Request.app = 1
    /\ GetItem /\ Item = Len(List)
    /\ Reply.status = 404

\* C3 as stated: every response to GET /, with or without the item
\* parameter, carries Cache-Control: no-store.
C3_EveryResponseNoStore == GetIndex => NoStore \in Reply.headers

\* C3 as amended: every successful (200) response to GET /, with or without
\* the item parameter, carries Cache-Control: no-store.
C3_SuccessNoStore ==
    (GetIndex /\ Reply.status = 200) => NoStore \in Reply.headers

C3_Witness ==
    /\ List = TwoThings /\ Answered /\ Request.app = 1
    /\ GetRandom /\ Reply.status = 200 /\ Page.index = 1
    /\ NoStore \in Reply.headers

\* C4: the "share this one" link of every page served by GET / carries item =
\* the index of the suggestion shown, and a GET of that link returns the same
\* suggestion (index and text) as the page the link was taken from.
C4_ShareLinkRoundTrip ==
    /\ (Answered /\ Reply.page # None) =>
          /\ Page.share.path = "/"
          /\ Len(Page.share.query) = 1
          /\ Page.share.query[1][1] = "item"
          /\ Value(Page.share.query[1][2]) = Page.index
    /\ (Answered /\ Request.via = "share") =>
          /\ Reply.status = 200
          /\ Reply.page # None
          /\ Page.index = origin[1].index
          /\ Page.thing = origin[1].thing

C4_Witness ==
    /\ List = TwoThings
    /\ Answered /\ Request.via = "share" /\ Request.app = 2
    /\ Reply.page # None /\ Page.index = 1
    /\ origin # None /\ origin[1].index = 1

\* C5: the chat handler answers, on a non-empty list, with status 200 and a
\* JSON object whose response_type is "in_channel" and whose text is the raw
\* markdown of some entry of the list; on an empty list, with 404.
C5_ChatReply ==
    (Answered /\ Reply.service = "slack_troubleshoot") =>
        IF Len(List) = 0
        THEN Reply.status = 404 /\ Reply.json = None
        ELSE /\ Reply.status = 200
             /\ Reply.page = None
             /\ Reply.json # None
             /\ Reply.json[1].response_type = "in_channel"
             /\ \E i \in 1..Len(List) : Reply.json[1].text = List[i]

C5_Witness ==
    /\ List = TwoThings /\ Answered /\ Request.app = 1
    /\ Answered /\ Reply.service = "slack_troubleshoot"
    /\ Reply.json # None
    /\ Reply.json[1].text = <<"a", "<">>

\* C6: GET / without item never returns out-of-range content: on a non-empty
\* list the page's index is in [0, len(list)) and its suggestion is
\* list[index]; on an empty list the answer is 404.
C6_RandomInRange ==
    GetRandom =>
        IF Len(List) = 0
        THEN Reply.status = 404 /\ Reply.page = None
        ELSE /\ Reply.status = 200
             /\ Reply.page # None
             /\ Page.index \in 0..(Len(List) - 1)
             /\ Page.thing.markdown = List[Page.index + 1]

C6_Witness ==
    /\ List = TwoThings /\ Answered /\ Request.app = 1
    /\ GetRandom /\ Request.via = "direct"
    /\ Reply.page # None /\ Page.index = 0

\* C7: under a fair draw, requests for GET / without item eventually return
\* every entry of the list: whatever the position, a page with that index is
\* eventually served.
C7_EveryEntryEventually ==
    \A i \in 0..(MaxThings - 1) :
        (apps # <<>> /\ i < Len(List))
            ~> (GetRandom /\ Reply.page # None /\ Page.index = i)

C7_Witness ==
    /\ List = TwoThings /\ Answered /\ Request.app = 2
    /\ GetRandom /\ Request.via = "direct"
    /\ Reply.page # None /\ Page.index = Len(List) - 1

\* C8: the loader runs once and before any request is served: no app is
\* configured and no request answered unless loading the asset succeeded, and
\* when the asset is malformed make_service fails and nothing is ever mounted.
C8_LoadBeforeServing ==
    /\ loads <= 1
    /\ (apps # <<>> \/ Answered \/ service # None) =>
          /\ loads = 1
          /\ pc = "serving"
          /\ THINGS.wellformed
    /\ (loads = 1 /\ ~THINGS.wellformed) =>
          /\ pc = "failed"
          /\ service = None
          /\ apps = <<>>
          /\ ~Answered

C8_Witness == pc = "failed" /\ loads = 1 /\ ~THINGS.wellformed

\* the list equals the loaded sequence and each entry's stored index is its
\* position
SameAsLoaded(things) ==
    /\ Len(things) = Len(List)
    /\ \A i \in 1..Len(things) :
          /\ things[i][1] = i - 1
          /\ things[i][2].markdown = List[i]

\* C9: in every state after load, whatever requests have been served and in
\* every app configured from the one make_service result, the suggestion list
\* equals the loaded sequence and every entry's index equals its position.
C9_ListNeverChanges ==
    /\ service # None => SameAsLoaded(service[1])
    /\ \A a \in 1..Len(apps) : SameAsLoaded(apps[a].data)

C9_Witness ==
    /\ Len(apps) = 2 /\ List = TwoThings
    /\ Answered /\ Request.app = 2 /\ Reply.json # None
    /\ Cardinality(shown) = 2

\* C10 as stated: a POST to /troubleshoot is routed to the chat handler and
\* answered with the chat-message JSON (200) or, on an empty list, with 404.
C10_PostTroubleshoot ==
    (Answered /\ Request.method = "POST" /\ Request.path = "/troubleshoot") =>
        /\ Reply.service = "slack_troubleshoot"
        /\ IF Len(List) = 0 THEN Reply.status = 404
           ELSE Reply.status = 200 /\ Reply.json # None

\* C10 as amended: the chat endpoint is served at POST /slack/troubleshoot: a
\* POST to that path is routed to the chat handler and answered with the
\* chat-message JSON (200) or, on an empty list, with 404.
C10_PostSlackTroubleshoot ==
    (Answered /\ Request.method = "POST"
              /\ Request.path = "/slack/troubleshoot") =>
        /\ Reply.service = "slack_troubleshoot"
        /\ IF Len(List) = 0 THEN Reply.status = 404
           ELSE Reply.status = 200 /\ Reply.json # None

C10_Witness ==
    /\ List = TwoThings /\ Answered /\ Request.app = 2
    /\ Answered /\ Request.method = "POST"
    /\ Request.path = "/slack/troubleshoot"
    /\ Reply.status = 200 /\ Reply.json # None
    /\ Reply.json[1].text = <<"a">>

====
